---- MODULE Spec2Model ----
(***************************************************************************)
(* A model of micro-llms.ts: the scalar autograd engine (class Value of    *)
(* gpt.ts), the numeric primitive linear, the three forward passes at the  *)
(* level of their key/value caches (gpt, Llama.forward, Deepseek.forward), *)
(* the training and inference drivers, and parameter save/load.            *)
(*                                                                         *)
(* Numbers.  A JavaScript number is modelled as a tagged value: an exact   *)
(* integer [k |-> "num", v |-> i], NaN, or undefined (an out-of-range      *)
(* array read), or Float: a finite float64 whose value the model does not  *)
(* track (any finite value, zero included; a randomly initialized weight,  *)
(* a square root, an exponential).  Arithmetic is exact on "num" values    *)
(* and yields Float as soon as the result is not an exactly known integer; *)
(* the one exact fact kept about Float is that 0 * Float = 0.              *)
(***************************************************************************)
EXTENDS Integers, Sequences, FiniteSets, TLC

VARIABLES
  \* ---- autograd arena and the gradient side of a training step
  nodes,      \* the Value objects alive, in creation order; a Value is its index
  nparams,    \* nodes[1..nparams] are the parameter leaves (params of gpt.ts:183)
  apc,        \* "build" (forward/loss construction) or "backward_done"
  bw,         \* the last backward call: its output node and the grads it found
  usedGrad    \* TRUE once an optimizer update has consumed a nonzero grad

agVars == <<nodes, nparams, apc, bw, usedGrad>>

VARIABLES
  \* ---- the drivers (train, infere) and the caches they own
  variant,    \* "gpt", "llama" or "deepseek": the model the driver was given
  pc,         \* where the driver is
  step,       \* training step, 0-based
  sample,     \* inference sample, 0-based
  tokens,     \* the token ids of the current document, BOS-wrapped
  n,          \* forward calls the current training step makes
  pos,        \* loop variable of the position loop
  tokenId,    \* the token the inference loop feeds next
  keys,       \* keys[li]: the per-layer cache passed as third argument
  values,     \* values[li]: the per-layer cache passed as fourth argument
  nlosses,    \* losses.length
  seqNo,      \* number of the document or sample being processed
  fwdLog,     \* the forward calls made on the current caches, in order
  bwdCalls,   \* backward calls made in the current training step
  attn,       \* the cache reads of the last forward call, per layer and head
  xlog,       \* the last forward call: the successive values of x, and its result
  idxs        \* inference: the ids sampled so far for this sample

drvVars == <<variant, pc, step, sample, tokens, n, pos, tokenId, keys, values,
             nlosses, seqNo, fwdLog, bwdCalls, attn, xlog, idxs>>

VARIABLES
  \* ---- parameter persistence
  saver,      \* params of the model that is saved: a sequence of Values
  loader,     \* params of the freshly constructed model that loads
  file,       \* model.bin: whether it exists, and its bytes
  loadInfo,   \* outcome of the last load
  \* ---- one call of linear
  lin,        \* its arguments and its result
  \* ---- one training step on the graph of a whole forward pass
  scene       \* where the step is, what it was given, and what it built

perVars == <<saver, loader, file, loadInfo>>

vars == <<agVars, drvVars, perVars, lin, scene>>

(***************************************************************************)
(* Bounds of the model.                                                    *)
(***************************************************************************)
MaxNodes == 4            \* Value objects alive at once (parameters included)
ParamCounts == {1, 2}    \* how many parameter leaves a model has
ParamData == {-1, 2}     \* the data a parameter leaf may hold

(***************************************************************************)
(* JavaScript numbers.                                                     *)
(***************************************************************************)
Num(i) == [k |-> "num", v |-> i]
NaN == [k |-> "nan", v |-> 0]
Undefined == [k |-> "undef", v |-> 0]
Float == [k |-> "float", v |-> 0]
IsNum(a) == a.k = "num"
IsFinite(a) == a.k \in {"num", "float"}

\* a + b and a * b of JavaScript: NaN as soon as an operand is NaN or undefined
NumAdd(a, b) ==
  IF IsNum(a) /\ IsNum(b) THEN Num(a.v + b.v)
  ELSE IF IsFinite(a) /\ IsFinite(b) THEN Float
  ELSE NaN
NumMul(a, b) ==
  IF IsNum(a) /\ IsNum(b) THEN Num(a.v * b.v)
  ELSE IF IsFinite(a) /\ IsFinite(b)
       THEN IF a = Num(0) \/ b = Num(0) THEN Num(0) ELSE Float
  ELSE NaN

RECURSIVE IntPow(_, _)
IntPow(b, e) == IF e = 0 THEN 1 ELSE b * IntPow(b, e - 1)

\* a ** e for an integer e: exact for e >= 0 and for a in {1,-1}; a negative
\* power of another nonzero integer is a fraction (0 ** e is Infinity there,
\* which no caller produces: spec'd as a precondition of div)
PowExact(a, e) == IsNum(a) /\ (e >= 0 \/ a.v \in {1, -1})
NumPow(a, e) ==
  IF ~IsFinite(a) THEN NaN
  ELSE IF e = 0 THEN Num(1)
  ELSE IF ~PowExact(a, e) THEN Float
  ELSE IF e >= 0 THEN Num(IntPow(a.v, e))
  ELSE Num(IF a.v = 1 \/ (-e) % 2 = 0 THEN 1 ELSE -1)

\* a ** -0.5 (rmsnorm): a root, not tracked
NumPowNegHalf(a) == IF IsFinite(a) THEN Float ELSE NaN

(***************************************************************************)
(* class Value (gpt.ts:41-115).  The arena g is the sequence of the Values *)
(* created so far; every operator returns the arena with the new Values    *)
(* appended, the result being the last one.                                *)
(***************************************************************************)
NewValue(data, children, localGrads) ==
  [data |-> data, grad |-> Num(0), children |-> children, localGrads |-> localGrads]

Last(g) == Len(g)

\* Statement sequencing: Only([a \in {e} |-> body]) is body with a standing for
\* the value of e, as "const a = e; body" does.
Only(f) == CHOOSE r \in {f[a] : a \in DOMAIN f} : TRUE

\* A loop over the indices lo..hi in increasing order, Body(s, i) being one
\* iteration on the state s: for (i = lo; i <= hi; i++) s = Body(s, i).
\* (The range is split in two, the first half running before the second.)
RECURSIVE ForRange(_, _, _, _)
ForRange(Body(_, _), s, lo, hi) ==
  IF lo > hi THEN s
  ELSE IF lo = hi THEN Body(s, lo)
  ELSE Only([m \in {ForRange(Body, s, lo, (lo + hi) \div 2)} |->
              ForRange(Body, m, (lo + hi) \div 2 + 1, hi)])

\* other instanceof Value ? other : new Value(other), for a raw operand
Wrap(g, raw) == Append(g, NewValue(raw, <<>>, <<>>))

ValueAdd(g, a, b) ==
  Append(g, NewValue(NumAdd(g[a].data, g[b].data), <<a, b>>, <<Num(1), Num(1)>>))

ValueAddRaw(g, a, raw) == ValueAdd(Wrap(g, raw), a, Len(g) + 1)

ValueMul(g, a, b) ==
  Append(g, NewValue(NumMul(g[a].data, g[b].data), <<a, b>>, <<g[b].data, g[a].data>>))

ValueMulRaw(g, a, raw) == ValueMul(Wrap(g, raw), a, Len(g) + 1)

ValuePow(g, a, e) ==
  Append(g, NewValue(NumPow(g[a].data, e), <<a>>,
                     <<NumMul(Num(e), NumPow(g[a].data, e - 1))>>))

\* this.data ** -0.5, with local gradient -0.5 * this.data ** -1.5
ValuePowNegHalf(g, a) ==
  Append(g, NewValue(NumPowNegHalf(g[a].data), <<a>>, <<NumPowNegHalf(g[a].data)>>))

\* Math.log(1) = 0 and 1 / 1 = 1 are the exact case
LogExact(d) == d = Num(1)
ValueLog(g, a) ==
  Append(g, NewValue(IF LogExact(g[a].data) THEN Num(0)
                     ELSE IF IsFinite(g[a].data) THEN Float ELSE NaN,
                     <<a>>, <<NumPow(g[a].data, -1)>>))

\* Math.exp(0) = 1 is the exact case; the local gradient is the result
ExpExact(d) == d = Num(0)
NumExp(d) == IF ExpExact(d) THEN Num(1) ELSE IF IsFinite(d) THEN Float ELSE NaN
ValueExp(g, a) == Append(g, NewValue(NumExp(g[a].data), <<a>>, <<NumExp(g[a].data)>>))

\* Math.max(0, data), and data > 0 ? 1 : 0: of a Float, 0 or 1 by its sign
ValueRelu(g, a) ==
  Append(g, NewValue(IF IsNum(g[a].data) /\ g[a].data.v > 0 THEN g[a].data
                     ELSE IF IsNum(g[a].data) THEN Num(0)
                     ELSE IF IsFinite(g[a].data) THEN Float ELSE NaN,
                     <<a>>,
                     <<IF IsNum(g[a].data) /\ g[a].data.v > 0 THEN Num(1)
                       ELSE IF IsFinite(g[a].data) /\ ~IsNum(g[a].data) THEN Float
                       ELSE Num(0)>>))

ValueNeg(g, a) == ValueMulRaw(g, a, Num(-1))

ValueSub(g, a, b) == Only([g1 \in {ValueNeg(g, b)} |-> ValueAdd(g1, a, Last(g1))])

ValueDiv(g, a, b) == Only([g1 \in {ValuePow(g, b, -1)} |-> ValueMul(g1, a, Last(g1))])

ValueDivRaw(g, a, raw) == ValueDiv(Wrap(g, raw), a, Len(g) + 1)

(***************************************************************************)
(* Value.backward (gpt.ts:93-114).                                         *)
(***************************************************************************)
\* build, with its call stack made explicit: st = [visited, topo, stack], a
\* frame <<v, j>> being the call build(v) about to visit child j of v.
\* One step of the innermost call: v._children.forEach(build) moves on to
\* child j, entering build(child) (which returns at once on a visited
\* child); past the last child, topo.push(v) and the call returns.
buildChildren(g, st) ==
  LET top == st.stack[Len(st.stack)]
      v == top[1]
      j == top[2]
      rest == SubSeq(st.stack, 1, Len(st.stack) - 1)
  IN IF j > Len(g[v].children)
     THEN [st EXCEPT !.topo = Append(@, v), !.stack = rest]
     ELSE LET c == g[v].children[j]
          IN IF c \in st.visited
             THEN [st EXCEPT !.stack = Append(rest, <<v, j + 1>>)]
             ELSE [st EXCEPT !.visited = @ \cup {c},
                             !.stack = Append(rest, <<v, j + 1>>) \o <<<<c, 1>>>>]

\* k steps, or fewer when the outermost call has returned (the steps are
\* run half by half, which keeps the evaluation shallow on large graphs)
RECURSIVE buildSteps(_, _, _)
buildSteps(g, st, k) ==
  IF k = 0 \/ st.stack = <<>> THEN st
  ELSE IF k = 1 THEN buildChildren(g, st)
  ELSE buildSteps(g, buildSteps(g, st, k \div 2), k - k \div 2)

\* build(v) from the state st: a node has at most two children, so a call
\* tree over the nodes of g ends within 3 * Len(g) steps
build(g, v, st) ==
  IF v \in st.visited THEN st
  ELSE buildSteps(g, [visited |-> st.visited \cup {v}, topo |-> st.topo,
                      stack |-> <<<<v, 1>>>>], 3 * Len(g))

\* faulty variant: a node is pushed before its children (pre-order)
RECURSIVE buildPre(_, _, _)
RECURSIVE buildPreChildren(_, _, _, _)
buildPre(g, v, st) ==
  IF v \in st.visited THEN st
  ELSE buildPreChildren(g, g[v].children, 1,
         [visited |-> st.visited \cup {v}, topo |-> Append(st.topo, v)])

buildPreChildren(g, cs, j, st) ==
  IF j > Len(cs) THEN st
  ELSE buildPreChildren(g, cs, j + 1, buildPre(g, cs[j], st))

Topo_PreOrder(g, out) ==
  LET pre == buildPre(g, out, [visited |-> {}, topo |-> <<>>]).topo
  IN [i \in 1..Len(pre) |-> pre[Len(pre) + 1 - i]]

Topo(g, out) == build(g, out, [visited |-> {}, topo |-> <<>>, stack |-> <<>>]).topo

\* v._children.forEach((child, j) => child.grad += v._localGrads[j] * v.grad)
RECURSIVE distribute(_, _, _)
distribute(g, v, j) ==
  IF j > Len(g[v].children) THEN g
  ELSE LET c == g[v].children[j]
           g1 == [g EXCEPT ![c].grad = NumAdd(@, NumMul(g[v].localGrads[j], g[v].grad))]
       IN distribute(g1, v, j + 1)

\* for (let i = topo.length - 1; i >= 0; i--): the iterations hi, hi-1, ..., lo
\* of the loop, upper half first (halving keeps the evaluation shallow on
\* long topo lists)
RECURSIVE sweepRange(_, _, _, _)
sweepRange(g, topo, hi, lo) ==
  IF hi < lo \/ g = <<>> THEN g
  ELSE IF hi = lo THEN distribute(g, topo[hi], 1)
  ELSE LET mid == (hi + lo) \div 2
       IN sweepRange(sweepRange(g, topo, hi, mid + 1), topo, mid, lo)

sweep(g, topo, i) == sweepRange(g, topo, i, 1)

Backward(g, out) ==
  LET topo == Topo(g, out)
      g1 == [g EXCEPT ![out].grad = Num(1)]
  IN sweep(g1, topo, Len(topo))

(***************************************************************************)
(* The gradient side of the training loop (gpt.ts:292-328): the forward    *)
(* passes and the loss build Values out of the parameters and of each      *)
(* other with the operators above, backward runs once on the loss, and the *)
(* Adam update rewrites every parameter's data and zeroes its grad.  The   *)
(* Values of the step are then unreachable and leave the arena.            *)
(***************************************************************************)
Ids == 1..Len(nodes)
Room(k) == apc = "build" /\ Len(nodes) + k <= MaxNodes

AgKeep == UNCHANGED <<nparams, apc, bw, usedGrad, drvVars, perVars, lin, scene>>

OpAdd == \E a \in Ids, b \in Ids :
  Room(1) /\ nodes' = ValueAdd(nodes, a, b) /\ AgKeep

OpMul == \E a \in Ids, b \in Ids :
  Room(1) /\ nodes' = ValueMul(nodes, a, b) /\ AgKeep

OpPow == \E a \in Ids, e \in {2, -1} :
  Room(1) /\ PowExact(nodes[a].data, e) /\ nodes' = ValuePow(nodes, a, e) /\ AgKeep

OpLog == \E a \in Ids :
  Room(1) /\ LogExact(nodes[a].data) /\ nodes' = ValueLog(nodes, a) /\ AgKeep

OpExp == \E a \in Ids :
  Room(1) /\ ExpExact(nodes[a].data) /\ nodes' = ValueExp(nodes, a) /\ AgKeep

OpRelu == \E a \in Ids :
  Room(1) /\ nodes' = ValueRelu(nodes, a) /\ AgKeep

OpNeg == \E a \in Ids :
  Room(2) /\ nodes' = ValueNeg(nodes, a) /\ AgKeep

\* loss.backward(): the loss is the Value the step built last
LossBackward == \E out \in {Len(nodes)} :
  /\ apc = "build"
  /\ bw' = [out |-> out, before |-> [i \in Ids |-> nodes[i].grad]]
  /\ nodes' = Backward(nodes, out)
  /\ apc' = "backward_done"
  /\ UNCHANGED <<nparams, usedGrad, drvVars, perVars, lin, scene>>

\* params.forEach: p.data -= lr_t * mhat / (sqrt(vhat) + eps); p.grad = 0.
\* The new data is a float64 function of the moments; any value may result.
\* (faulty variant: the grad is left as it is)
ZeroGrad_Missing(p) == p
ZeroGrad(p) == [p EXCEPT !.grad = Num(0)]

AdamStep == \E d \in [1..nparams -> ParamData] :
  /\ apc = "backward_done"
  /\ nodes' = [i \in 1..nparams |-> ZeroGrad([nodes[i] EXCEPT !.data = Num(d[i])])]
  /\ apc' = "build"
  /\ usedGrad' = (usedGrad \/ \E i \in 1..nparams : nodes[i].grad # Num(0))
  /\ bw' = [out |-> 0, before |-> <<>>]
  /\ UNCHANGED <<nparams, drvVars, perVars, lin, scene>>

\* the parts of the state a specification does not exercise
AgIdle ==
  /\ nodes = <<>> /\ nparams = 0 /\ apc = "build"
  /\ bw = [out |-> 0, before |-> <<>>] /\ usedGrad = FALSE

\* no forward call made yet
NoForward == [x |-> <<>>, logits |-> <<>>]

DrvIdle ==
  /\ variant = "gpt" /\ pc = "done" /\ step = 0 /\ sample = 0
  /\ tokens = <<>> /\ n = 0 /\ pos = 0 /\ tokenId = 0
  /\ keys = <<>> /\ values = <<>> /\ nlosses = 0 /\ seqNo = 0
  /\ fwdLog = <<>> /\ bwdCalls = 0 /\ attn = <<>> /\ xlog = NoForward /\ idxs = <<>>

PerIdle ==
  /\ saver = <<>> /\ loader = <<>> /\ file = [exists |-> FALSE, bytes |-> <<>>]
  /\ loadInfo = [done |-> FALSE]

LinIdle == lin = [called |-> FALSE]

SceneIdle == scene = [pc |-> "off"]

InitAutograd ==
  /\ nparams \in ParamCounts
  /\ \E d \in [1..nparams -> ParamData] :
       nodes = [i \in 1..nparams |-> NewValue(Num(d[i]), <<>>, <<>>)]
  /\ apc = "build"
  /\ bw = [out |-> 0, before |-> <<>>]
  /\ usedGrad = FALSE
  /\ DrvIdle /\ PerIdle /\ LinIdle /\ SceneIdle

NextAutograd ==
  \/ OpAdd \/ OpMul \/ OpPow \/ OpLog \/ OpExp \/ OpRelu \/ OpNeg
  \/ LossBackward
  \/ AdamStep

SpecAutograd == InitAutograd /\ [][NextAutograd]_vars

(***************************************************************************)
(* Derivatives by paths.  An edge is <<v, j>>: slot j of v's operand list. *)
(* Paths(g, v, u) is the set of edge sequences leading from v down to u.   *)
(***************************************************************************)
RECURSIVE Paths(_, _, _)
Paths(g, v, u) ==
  IF v = u THEN {<<>>}
  ELSE UNION {{<<<<v, j>>>> \o p : p \in Paths(g, g[v].children[j], u)} :
                j \in 1..Len(g[v].children)}

RECURSIVE PathProduct(_, _, _)
PathProduct(g, p, i) ==
  IF i > Len(p) THEN 1
  ELSE g[p[i][1]].localGrads[p[i][2]].v * PathProduct(g, p, i + 1)

RECURSIVE SumProducts(_, _)
SumProducts(g, ps) ==
  IF ps = {} THEN 0
  ELSE LET p == CHOOSE q \in ps : TRUE
       IN PathProduct(g, p, 1) + SumProducts(g, ps \ {p})

PathSum(g, out, u) == SumProducts(g, Paths(g, out, u))
Reachable(g, out) == {u \in 1..Len(g) : Paths(g, out, u) # {}}

\* C1: after backward() on an output node of a graph whose grads were all 0,
\* every node reachable from the output holds the sum, over all paths from
\* the output to it, of the product of the local gradients along the path
\* (the output itself holds 1), fan-out and repeated operands included.
C1_BackwardIsPathSum ==
  (apc = "backward_done" /\ \A i \in DOMAIN bw.before : bw.before[i] = Num(0))
    => \A u \in Reachable(nodes, bw.out) :
         nodes[u].grad = Num(PathSum(nodes, bw.out, u))

\* a backward call whose graph has a node reached by several paths with a
\* nonzero derivative, and a node using the same operand in both slots
C1_Witness ==
  /\ apc = "backward_done"
  /\ \A i \in DOMAIN bw.before : bw.before[i] = Num(0)
  /\ \E u \in Reachable(nodes, bw.out) :
       /\ Cardinality(Paths(nodes, bw.out, u)) >= 3
       /\ nodes[u].grad \notin {Num(0), Num(1)}
  /\ \E v \in Reachable(nodes, bw.out) :
       Len(nodes[v].children) = 2 /\ nodes[v].children[1] = nodes[v].children[2]
  /\ \E v \in Reachable(nodes, bw.out) :
       Len(nodes[v].children) = 2 /\ nodes[v].children[1] # nodes[v].children[2]

\* C6: backward() only adds to grads (the output's is set to 1); the
\* optimizer update zeroes every parameter's grad, so every parameter has
\* grad 0 when backward is invoked, in the first step and in later ones, and
\* afterwards holds the derivative of that step's loss alone.
C6_GradsFreshEachStep ==
  /\ apc = "build" => \A p \in 1..nparams : nodes[p].grad = Num(0)
  /\ apc = "backward_done" =>
       /\ \A p \in 1..nparams :
            /\ bw.before[p] = Num(0)
            /\ nodes[p].grad = Num(PathSum(nodes, bw.out, p))
       /\ \A u \in 1..Len(nodes) :
            nodes[u].grad = IF u = bw.out THEN Num(1)
                            ELSE NumAdd(bw.before[u], Num(PathSum(nodes, bw.out, u)))

\* a backward call of a later step, after an update consumed a nonzero grad,
\* that leaves a nonzero grad on one parameter and 0 on another
C6_Witness ==
  /\ usedGrad
  /\ apc = "backward_done"
  /\ bw.out > nparams
  /\ \E p \in 1..nparams : nodes[p].grad # Num(0)

(***************************************************************************)
(* Hyperparameters (gpt.ts:152-156, LlamaConfig, DeepseekConfig) and the   *)
(* tokenizer (gpt.ts:143-145).  n_layer, block_size, the alphabet, the     *)
(* step budget and the sample count are scaled down.                       *)
(***************************************************************************)
n_embd == 16
n_head == 4
n_kv_head == 2
latent_dim == 16
head_dim == n_embd \div n_head
n_rep == n_head \div n_kv_head
n_layer == 2
block_size == 3
NumChars == 2            \* uchars.length
numSteps == 2
NumSamples == 2
MaxDocLen == 3           \* characters in a document

BOS == NumChars
vocabSize == NumChars + 1
Variants == {"gpt", "llama", "deepseek"}
Layers == 1..n_layer

\* shapes <<nout, nin>> of the matrices whose rows decide a cached vector's length
gpt_attn_wk == <<n_embd, n_embd>>
llama_attn_wk == <<n_kv_head * head_dim, n_embd>>
attn_compress_kv == <<latent_dim, n_embd>>
attn_wkv == <<n_embd, latent_dim>>
lm_head == <<vocabSize, n_embd>>

Min(a, b) == IF a <= b THEN a ELSE b

RECURSIVE Concat(_)
Concat(chunks) ==
  IF chunks = <<>> THEN <<>> ELSE Head(chunks) \o Concat(Tail(chunks))
Range0(k) == [i \in 1..k |-> i - 1]

\* Array.prototype.slice(a, b) for 0 <= a <= b: both ends clamp to the length
Slice(xs, a, b) == SubSeq(xs, Min(a, Len(xs)) + 1, Min(b, Len(xs)))

\* linear(x, w) returns one element per row of w: the element indices of the result
LinearOut(w) == Range0(w[1])

\* a cached per-step tensor; seq, pos and tok say which forward call made it
CacheEntry(what, sq, posId, tok, li, vec, rope) ==
  [what |-> what, seq |-> sq, pos |-> posId, tok |-> tok, li |-> li,
   vec |-> vec, rope |-> rope]

\* keys[li].push(k)
\* (faulty variant: the list is replaced by the new entry)
Push_Replace(xs, x) == <<x>>
Push(xs, x) == Append(xs, x)

\* keys[li].map(...), t < keysLatentCache[li].length: every cached step
\* (faulty variant: the entry just pushed is left out)
CachedSteps_AllButLast(c) == Len(c) - 1
CachedSteps(c) == Len(c)

\* one operand a head takes from the cache: entry t, the elements idx of it
Read(t, e, idx, rope) == [t |-> t, entry |-> e, idx |-> idx, rope |-> rope]

\* one assignment to the activation x of a forward pass: the operation that
\* produced the new x, the matrix it used ("" for none) and the layer (0
\* outside the layer loop)
XOp(op, w, li) == [op |-> op, w |-> w, li |-> li]

(***************************************************************************)
(* gpt (gpt.ts:216-276), one layer: ks and vs are keys[li] and values[li]. *)
(***************************************************************************)
gptHead(h, ks1, vs1) ==
  LET hs == h * head_dim
      kh == [t \in 1..CachedSteps(ks1) |-> Slice(ks1[t].vec, hs, hs + head_dim)]
      vh == [t \in 1..CachedSteps(vs1) |-> Slice(vs1[t].vec, hs, hs + head_dim)]
      logits == [t \in 1..Len(kh) |-> Read(t, ks1[t], kh[t], <<>>)]
      \* weights = softmax(logits): one weight per logit
  IN [logits |-> logits,
      vals |-> [t \in 1..Min(Len(logits), Len(vh)) |-> Read(t, vs1[t], vh[t], <<>>)],
      threw |-> Len(vh) < Len(logits)]

\* the assignments to x of one layer (gpt.ts:229, 264-272) ...
gptLayerX(li) ==
  <<XOp("rmsnorm", "", li),
    XOp("linear", "attn_wo", li), XOp("add", "x_res", li),
    XOp("rmsnorm", "", li),
    XOp("linear", "mlp_fc1", li), XOp("relu_pow2", "", li),
    XOp("linear", "mlp_fc2", li), XOp("add", "x_res", li)>>

\* ... and of the whole pass (gpt.ts:222-225, 275): the returned vector is
\* linear(x, lm_head) of the x the last layer left
gptX ==
  <<XOp("row_add", "wte+wpe", 0), XOp("rmsnorm", "", 0)>>
    \o Concat([li \in Layers |-> gptLayerX(li)])
    \o <<XOp("linear", "lm_head", 0)>>

gptLayer(tok, posId, sq, li, ks, vs) ==
  LET k == CacheEntry("k", sq, posId, tok, li, LinearOut(gpt_attn_wk), <<>>)
      v == CacheEntry("v", sq, posId, tok, li, LinearOut(gpt_attn_wk), <<>>)
      ks1 == Push(ks, k)
      vs1 == Push(vs, v)
      heads == [h \in 1..n_head |-> gptHead(h - 1, ks1, vs1)]
  IN [keys |-> ks1, values |-> vs1, heads |-> heads,
      threw |-> \E h \in 1..n_head : heads[h].threw]

\* state.wte[tokenId] and state.wpe[posId] are undefined outside the matrices,
\* and the .map on them throws
gpt(tok, posId, sq, ks, vs) ==
  LET lay == [li \in Layers |-> gptLayer(tok, posId, sq, li, ks[li], vs[li])]
      noRow == tok \notin 0..(vocabSize - 1) \/ posId \notin 0..(block_size - 1)
  IN [threw |-> noRow \/ \E li \in Layers : lay[li].threw,
      x |-> IF noRow THEN <<>> ELSE gptX,
      keys |-> IF noRow THEN ks ELSE [li \in Layers |-> lay[li].keys],
      values |-> IF noRow THEN vs ELSE [li \in Layers |-> lay[li].values],
      attn |-> [li \in Layers |-> lay[li].heads],
      logits |-> LinearOut(lm_head)]

(***************************************************************************)
(* Llama.forward (llama.ts:62-171).                                        *)
(***************************************************************************)
LlamaHead(h, ks1, vs1) ==
  LET kv_head_idx == h \div n_rep
      k_h_all == [t \in 1..CachedSteps(ks1) |-> ks1[t].vec[kv_head_idx + 1]]
      v_h_all == [t \in 1..CachedSteps(vs1) |-> vs1[t].vec[kv_head_idx + 1]]
      logits == [t \in 1..Len(k_h_all) |-> Read(t, ks1[t], k_h_all[t], ks1[t].rope)]
  IN [logits |-> logits,
      vals |-> [t \in 1..Min(Len(logits), Len(v_h_all)) |->
                  Read(t, vs1[t], v_h_all[t], vs1[t].rope)],
      \* attn_weights[t] is undefined for t beyond the logits
      threw |-> Len(v_h_all) > Len(logits)]

\* the assignments to x of one layer (llama.ts:72, 143-163) and of the whole
\* pass (llama.ts:68-69, 167-169)
LlamaLayerX(li) ==
  <<XOp("rmsnorm", "", li),
    XOp("linear", "attn_wo", li), XOp("add", "x_res", li),
    XOp("rmsnorm", "", li),
    XOp("linear", "ffn_down", li), XOp("add", "ffn_residual", li)>>

LlamaX ==
  <<XOp("row", "wte", 0), XOp("rmsnorm", "", 0)>>
    \o Concat([li \in Layers |-> LlamaLayerX(li)])
    \o <<XOp("rmsnorm", "", 0), XOp("linear", "lm_head", 0)>>

LlamaLayer(tok, posId, sq, li, ks, vs) ==
  LET k == LinearOut(llama_attn_wk)
      v == LinearOut(llama_attn_wk)
      k_heads == [h \in 1..n_kv_head |->
                    Slice(k, (h - 1) * head_dim, (h - 1) * head_dim + head_dim)]
      v_heads == [h \in 1..n_kv_head |->
                    Slice(v, (h - 1) * head_dim, (h - 1) * head_dim + head_dim)]
      ks1 == Push(ks, CacheEntry("k_heads", sq, posId, tok, li, k_heads, <<posId>>))
      vs1 == Push(vs, CacheEntry("v_heads", sq, posId, tok, li, v_heads, <<>>))
      heads == [h \in 1..n_head |-> LlamaHead(h - 1, ks1, vs1)]
  IN [keys |-> ks1, values |-> vs1, heads |-> heads,
      threw |-> \E h \in 1..n_head : heads[h].threw]

LlamaForward(tok, posId, sq, ks, vs) ==
  LET lay == [li \in Layers |-> LlamaLayer(tok, posId, sq, li, ks[li], vs[li])]
      noRow == tok \notin 0..(vocabSize - 1)
  IN [threw |-> noRow \/ \E li \in Layers : lay[li].threw,
      x |-> IF noRow THEN <<>> ELSE LlamaX,
      keys |-> IF noRow THEN ks ELSE [li \in Layers |-> lay[li].keys],
      values |-> IF noRow THEN vs ELSE [li \in Layers |-> lay[li].values],
      attn |-> [li \in Layers |-> lay[li].heads],
      logits |-> LinearOut(lm_head)]

(***************************************************************************)
(* Deepseek.forward (part_001:83-214): one cache, of compressed latents.   *)
(***************************************************************************)
KeySlice(kv_full) == Slice(kv_full, 0, head_dim)
ValueSlice(kv_full) == Slice(kv_full, head_dim, head_dim * 2)

DeepseekHead(h, c1) ==
  LET logits == [t \in 1..CachedSteps(c1) |->
                   Read(t, c1[t], KeySlice(LinearOut(attn_wkv)), <<0>>)]
  IN [logits |-> logits,
      vals |-> [t \in 1..Len(logits) |->
                  Read(t, c1[t], ValueSlice(LinearOut(attn_wkv)), <<>>)],
      threw |-> FALSE]

\* the assignments to x of one layer (part_001:96, 164-207) and of the whole
\* pass (part_001:87-88, 211-213)
DeepseekLayerX(li) ==
  <<XOp("rmsnorm", "", li),
    XOp("linear", "attn_wo", li), XOp("add", "residual1", li),
    XOp("rmsnorm", "", li),
    XOp("moe_output", "", li), XOp("add", "residual2", li)>>

DeepseekX ==
  <<XOp("row", "wte", 0), XOp("rmsnorm", "", 0)>>
    \o Concat([li \in Layers |-> DeepseekLayerX(li)])
    \o <<XOp("rmsnorm", "", 0), XOp("linear", "lm_head", 0)>>

DeepseekLayer(tok, posId, sq, li, c) ==
  LET kv_latent == CacheEntry("kv_latent", sq, posId, tok, li,
                              LinearOut(attn_compress_kv), <<>>)
      c1 == Push(c, kv_latent)
  IN [keys |-> c1, heads |-> [h \in 1..n_head |-> DeepseekHead(h - 1, c1)]]

\* the fourth argument the drivers pass is not a parameter of this forward
DeepseekForward(tok, posId, sq, keysLatentCache, vs) ==
  LET lay == [li \in Layers |-> DeepseekLayer(tok, posId, sq, li, keysLatentCache[li])]
      noRow == tok \notin 0..(vocabSize - 1)
  IN [threw |-> noRow,
      x |-> IF noRow THEN <<>> ELSE DeepseekX,
      keys |-> IF noRow THEN keysLatentCache ELSE [li \in Layers |-> lay[li].keys],
      values |-> vs,
      attn |-> [li \in Layers |-> lay[li].heads],
      logits |-> LinearOut(lm_head)]

\* model.forward(tokenId, posId, keys, values)
Forward(tok, posId, sq, ks, vs) ==
  CASE variant = "gpt" -> gpt(tok, posId, sq, ks, vs)
    [] variant = "llama" -> LlamaForward(tok, posId, sq, ks, vs)
    [] variant = "deepseek" -> DeepseekForward(tok, posId, sq, ks, vs)

(***************************************************************************)
(* The drivers: train (part_000:10-43, gpt.ts:292-331) and infere          *)
(* (part_000:45-68, gpt.ts:339-358).  docs[step % docs.length] is any      *)
(* document: a string over the alphabet, encoded character by character.   *)
(***************************************************************************)
Chars == 0..(NumChars - 1)
Docs == UNION {[1..k -> Chars] : k \in 0..MaxDocLen}

\* Array.from({ length: n_layer }, () => [])
\* (faulty variant: the lists are allocated once, outside the loop)
NewCache_Stale == IF keys = <<>> THEN [li \in Layers |-> <<>>] ELSE keys
NewCache == [li \in Layers |-> <<>>]

\* Math.min(block_size, tokens.length - 1)
\* (faulty variant: the document is not truncated)
StepLen_NoMin(toks) == Len(toks) - 1
StepLen(toks) == Min(block_size, Len(toks) - 1)

\* weightedChoice(weights): the i at which r -= weights[i] first makes r <= 0,
\* else weights.length - 1 (r is NaN when a weight is, and then no i does);
\* Math.random() makes any index a possible result
\* (faulty variant: the fall-through result is weights.length)
weightedChoice_PastEnd(len) == 0..len
weightedChoice(len) == (0..(len - 1)) \cup {len - 1}

\* what a forward call was given
Call(tok, posId) ==
  [tok |-> tok, pos |-> posId,
   klen |-> [li \in DOMAIN keys |-> Len(keys[li])],
   vlen |-> [li \in DOMAIN values |-> Len(values[li])],
   seen |-> UNION {{keys[li][t].seq : t \in 1..Len(keys[li])} : li \in DOMAIN keys}
            \cup UNION {{values[li][t].seq : t \in 1..Len(values[li])} : li \in DOMAIN values}]

DrvKeep == UNCHANGED <<agVars, perVars, lin, scene>>

\* for (step...) { doc; tokens; n; keys; values; losses = [] ...
\* (the locals of the previous iteration and of the other driver are dead)
TrainStep == \E doc \in Docs :
  /\ pc = "train" /\ step < numSteps
  /\ tokens' = <<BOS>> \o doc \o <<BOS>>
  /\ n' = StepLen(tokens')
  /\ keys' = NewCache /\ values' = NewCache
  /\ nlosses' = 0 /\ pos' = 0
  /\ seqNo' = seqNo + 1 /\ fwdLog' = <<>> /\ bwdCalls' = 0
  /\ attn' = <<>> /\ tokenId' = 0 /\ xlog' = NoForward /\ idxs' = <<>>
  /\ pc' = "train_fwd"
  /\ UNCHANGED <<variant, step, sample>>
  /\ DrvKeep

\* ... for (pos < n) { logits = forward(tokens[pos], pos, keys, values); losses.push }
TrainForward ==
  /\ pc = "train_fwd" /\ pos < n
  /\ \E tok \in {IF pos + 1 <= Len(tokens) THEN tokens[pos + 1] ELSE -1} :
     \E r \in {Forward(tok, pos, seqNo, keys, values)} :
        /\ fwdLog' = Append(fwdLog, Call(tok, pos))
        /\ keys' = r.keys /\ values' = r.values /\ attn' = r.attn
        /\ xlog' = [x |-> r.x, logits |-> r.logits]
        /\ IF r.threw
           THEN pc' = "crashed" /\ UNCHANGED <<nlosses, pos>>
           ELSE pc' = pc /\ nlosses' = nlosses + 1 /\ pos' = pos + 1
  /\ UNCHANGED <<variant, step, sample, tokens, n, tokenId, seqNo, bwdCalls, idxs>>
  /\ DrvKeep

\* ... loss = losses.reduce(...).div(n); loss.backward()
TrainBackward ==
  /\ pc = "train_fwd" /\ pos >= n
  /\ IF nlosses = 0
     THEN pc' = "crashed" /\ UNCHANGED bwdCalls
     ELSE pc' = "train_optim" /\ bwdCalls' = bwdCalls + 1
  /\ UNCHANGED <<variant, step, sample, tokens, n, pos, tokenId, keys, values,
                 nlosses, seqNo, fwdLog, attn, xlog, idxs>>
  /\ DrvKeep

\* ... optim.step(step, numSteps) }
TrainOptim ==
  /\ pc = "train_optim"
  /\ step' = step + 1
  /\ pc' = "train"
  /\ UNCHANGED <<variant, sample, tokens, n, pos, tokenId, keys, values,
                 nlosses, seqNo, fwdLog, bwdCalls, attn, xlog, idxs>>
  /\ DrvKeep

\* training is followed by inference
TrainEnd ==
  /\ pc = "train" /\ step >= numSteps
  /\ pc' = "infere"
  /\ UNCHANGED <<variant, step, sample, tokens, n, pos, tokenId, keys, values,
                 nlosses, seqNo, fwdLog, bwdCalls, attn, xlog, idxs>>
  /\ DrvKeep

\* for (s < 20) { keys; values; tokenId = BOS; ...
InfSample ==
  /\ pc = "infere" /\ sample < NumSamples
  /\ keys' = NewCache /\ values' = NewCache
  /\ tokenId' = BOS /\ pos' = 0
  /\ seqNo' = seqNo + 1 /\ fwdLog' = <<>>
  /\ attn' = <<>> /\ tokens' = <<>> /\ n' = 0 /\ nlosses' = 0 /\ bwdCalls' = 0
  /\ xlog' = NoForward /\ idxs' = <<>>
  /\ pc' = "inf_fwd"
  /\ UNCHANGED <<variant, step, sample>>
  /\ DrvKeep

\* ... for (pos < block_size) { forward; idx = weightedChoice; break on BOS }
InfForward ==
  /\ pc = "inf_fwd" /\ pos < block_size
  /\ \E r \in {Forward(tokenId, pos, seqNo, keys, values)} :
        /\ fwdLog' = Append(fwdLog, Call(tokenId, pos))
        /\ keys' = r.keys /\ values' = r.values /\ attn' = r.attn
        /\ xlog' = [x |-> r.x, logits |-> r.logits]
        /\ IF r.threw
           THEN pc' = "crashed" /\ UNCHANGED <<tokenId, pos, sample, idxs>>
           ELSE \E idx \in weightedChoice(Len(r.logits)) :
                  /\ idxs' = Append(idxs, idx)
                  /\ IF idx = BOS
                     THEN pc' = "infere" /\ sample' = sample + 1
                          /\ UNCHANGED <<tokenId, pos>>
                     ELSE pc' = pc /\ tokenId' = idx /\ pos' = pos + 1
                          /\ UNCHANGED sample
  /\ UNCHANGED <<variant, step, tokens, n, nlosses, seqNo, bwdCalls>>
  /\ DrvKeep

\* ... the position loop ran to block_size
InfStop ==
  /\ pc = "inf_fwd" /\ pos >= block_size
  /\ pc' = "infere" /\ sample' = sample + 1
  /\ UNCHANGED <<variant, step, tokens, n, pos, tokenId, keys, values,
                 nlosses, seqNo, fwdLog, bwdCalls, attn, xlog, idxs>>
  /\ DrvKeep

InfEnd ==
  /\ pc = "infere" /\ sample >= NumSamples
  /\ pc' = "done"
  /\ UNCHANGED <<variant, step, sample, tokens, n, pos, tokenId, keys, values,
                 nlosses, seqNo, fwdLog, bwdCalls, attn, xlog, idxs>>
  /\ DrvKeep

Init ==
  /\ variant \in Variants
  /\ pc \in {"train", "infere"}
  /\ step = 0 /\ sample = 0 /\ tokens = <<>> /\ n = 0 /\ pos = 0 /\ tokenId = 0
  /\ keys = <<>> /\ values = <<>> /\ nlosses = 0 /\ seqNo = 0
  /\ fwdLog = <<>> /\ bwdCalls = 0 /\ attn = <<>> /\ xlog = NoForward /\ idxs = <<>>
  /\ AgIdle /\ PerIdle /\ LinIdle /\ SceneIdle

Next ==
  \/ TrainStep \/ TrainForward \/ TrainBackward \/ TrainOptim \/ TrainEnd
  \/ InfSample \/ InfForward \/ InfStop \/ InfEnd

Spec == Init /\ [][Next]_vars

(***************************************************************************)
(* Properties of the caches and of the drivers.                            *)
(***************************************************************************)
CachesLive == pc \in {"train_fwd", "train_optim", "inf_fwd"}
AppendOnly(a, b) == b = a \/ (Len(b) = Len(a) + 1 /\ SubSeq(b, 1, Len(a)) = a)

\* C2: for every variant and layer, after k forward calls on caches that
\* started empty the layer's cache has length k (key and value cache alike
\* where the variant has both), and a forward call only appends at the end:
\* no entry is removed, replaced or reordered.
C2_CacheLengthIsCalls ==
  /\ [](CachesLive =>
          /\ DOMAIN keys = Layers
          /\ \A li \in Layers :
               /\ Len(keys[li]) = Len(fwdLog)
               /\ variant # "deepseek" => Len(values[li]) = Len(fwdLog))
  /\ [][seqNo' = seqNo =>
          \A li \in DOMAIN keys :
            /\ AppendOnly(keys[li], keys'[li])
            /\ AppendOnly(values[li], values'[li])
            /\ fwdLog' # fwdLog => Len(keys'[li]) = Len(keys[li]) + 1]_vars

\* the third forward call on one pair of caches has been made
C2_Witness ==
  /\ CachesLive /\ Len(fwdLog) = 3
  /\ \A li \in Layers : Len(keys[li]) = 3

\* C3: the forward call made when a layer's cache holds k entries computes,
\* in every head, k+1 logits and k+1 weighted value terms: one for each of
\* the entries 1..k+1 of that layer's cache, in order, all of them written
\* for the current sequence at positions 0..k.
C3_AttentionIsCausal ==
  (CachesLive /\ fwdLog # <<>>) =>
    LET call == fwdLog[Len(fwdLog)]
    IN \A li \in Layers, h \in 1..n_head :
         LET k == call.klen[li]
             a == attn[li][h]
             vcache == IF variant = "deepseek" THEN keys[li] ELSE values[li]
         IN /\ Len(a.logits) = k + 1
            /\ Len(a.vals) = k + 1
            /\ \A t \in 1..(k + 1) :
                 /\ a.logits[t].t = t /\ a.logits[t].entry = keys[li][t]
                 /\ a.vals[t].t = t /\ a.vals[t].entry = vcache[t]
                 /\ a.logits[t].entry.seq = seqNo /\ a.vals[t].entry.seq = seqNo
                 /\ a.logits[t].entry.pos = t - 1 /\ a.vals[t].entry.pos = t - 1
                 /\ a.logits[t].entry.li = li /\ a.vals[t].entry.li = li
                 /\ a.logits[t].entry.pos <= call.pos

\* a forward call at position 2 of a second sequence
C3_Witness ==
  /\ CachesLive /\ seqNo >= 2 /\ Len(fwdLog) = 3
  /\ fwdLog[3].klen = [li \in Layers |-> 2]
  /\ Len(attn[n_layer][n_head].logits) = 3

\* C4: in the training loop and in the inference loop, the first forward
\* call of a document or sample is given n_layer empty lists, and no forward
\* call sees a cache entry written for another document or sample.
C4_CachesFreshPerSequence ==
  \A i \in 1..Len(fwdLog) :
    /\ fwdLog[i].seen \subseteq {seqNo}
    /\ i = 1 => /\ fwdLog[i].klen = [li \in Layers |-> 0]
                /\ fwdLog[i].vlen = [li \in Layers |-> 0]

\* the second forward call of an inference sample that follows two training
\* steps and another sample
C4_Witness ==
  /\ pc = "inf_fwd" /\ step = numSteps /\ step >= 2 /\ sample >= 1
  /\ Len(fwdLog) = 2 /\ fwdLog[2].seen = {seqNo}

\* C5: a training step calls forward n = min(block_size, tokens.length - 1)
\* times, n >= 1, at positions 0..n-1 in order with token tokens[pos], every
\* position below block_size; backward runs once, after the last forward call
\* and before the optimizer update.
C5_TrainingStepShape ==
  /\ pc # "crashed"
  /\ pc \in {"train_fwd", "train_optim"} =>
       /\ n >= 1 /\ n <= block_size /\ n <= Len(tokens) - 1
       /\ n = block_size \/ n = Len(tokens) - 1
       /\ Len(fwdLog) <= n
       /\ \A i \in 1..Len(fwdLog) :
            /\ fwdLog[i].pos = i - 1
            /\ fwdLog[i].pos < block_size
            /\ fwdLog[i].tok = tokens[i]
  /\ pc = "train_fwd" => bwdCalls = 0
  /\ pc = "train_optim" => Len(fwdLog) = n /\ bwdCalls = 1
  /\ (pc = "train" /\ step > 0) => Len(fwdLog) = n /\ bwdCalls = 1

\* the optimizer update of a later step whose document was truncated
C5_Witness ==
  /\ pc = "train_optim" /\ step >= 1
  /\ Len(tokens) - 1 > block_size
  /\ Len(fwdLog) = block_size /\ bwdCalls = 1

\* C11: in every variant the forward pass begins with the token-embedding
\* lookup followed by RMS normalization, ends with RMS normalization applied
\* immediately before the linear projection through lm_head, and returns a
\* logits vector of length vocabSize.
C11_NormFirstAndLast ==
  xlog.x # <<>> =>
    LET x == xlog.x
    IN /\ Len(x) >= 4
       /\ x[1].op \in {"row", "row_add"}
       /\ x[2] = XOp("rmsnorm", "", 0)
       /\ x[Len(x) - 1] = XOp("rmsnorm", "", 0)
       /\ x[Len(x)] = XOp("linear", "lm_head", 0)
       /\ Len(xlog.logits) = vocabSize

\* C10: in the latent-attention variant the key of a cached position is the
\* first half of the up-projected vector (elements 0..n_embd/2-1), rotated
\* at position 0, the value is its second half (n_embd/2..n_embd-1), and the
\* two slices cover the vector without overlapping.
C10_KeyValueHalves ==
  (variant = "deepseek" /\ CachesLive /\ fwdLog # <<>>) =>
    \A li \in Layers, h \in 1..n_head :
      \A t \in 1..Len(attn[li][h].logits) :
        LET kidx == attn[li][h].logits[t].idx
            vidx == attn[li][h].vals[t].idx
            elems(xs) == {xs[i] : i \in 1..Len(xs)}
        IN /\ kidx = [i \in 1..(n_embd \div 2) |-> i - 1]
           /\ attn[li][h].logits[t].rope = <<0>>
           /\ vidx = [i \in 1..(n_embd \div 2) |-> n_embd \div 2 + i - 1]
           /\ elems(kidx) \cup elems(vidx) = 0..(n_embd - 1)
           /\ elems(kidx) \cap elems(vidx) = {}

\* the sample loop runs on: its next iteration, or its exit, is eventually taken
SpecLive == Spec /\ WF_vars(InfForward \/ InfStop)

\* a forward call has been made for the current inference sample
InSample == tokens = <<>> /\ fwdLog # <<>>

SampleShape ==
  InSample =>
    /\ pc # "crashed"
    /\ Len(fwdLog) <= block_size
    /\ Len(idxs) = Len(fwdLog)
    /\ fwdLog[1].tok = BOS
    /\ \A li \in Layers : fwdLog[1].klen[li] = 0 /\ fwdLog[1].vlen[li] = 0
    /\ \A i \in 1..Len(fwdLog) : fwdLog[i].pos = i - 1 /\ fwdLog[i].pos < block_size
    /\ \A i \in 2..Len(fwdLog) : fwdLog[i].tok = idxs[i - 1] /\ fwdLog[i].tok # BOS
    /\ \A i \in 1..Len(idxs) : idxs[i] \in 0..(vocabSize - 1)
    /\ \A i \in 1..(Len(idxs) - 1) : idxs[i] # BOS
    /\ pc = "inf_fwd" => idxs[Len(idxs)] # BOS /\ pos = Len(fwdLog)
    /\ pc # "inf_fwd" => idxs[Len(idxs)] = BOS \/ Len(fwdLog) = block_size

\* C14: an inference sample first feeds BOS at position 0 on empty caches,
\* then feeds positions 0, 1, 2, ... in order, each with the id sampled just
\* before; it ends at the first sampled BOS, else after exactly block_size
\* forward calls, so it never makes more than block_size calls, never passes
\* a position >= block_size, never feeds BOS at a position > 0, samples only
\* ids in 0..vocabSize-1, and always terminates.
C14_SampleTerminates ==
  /\ []SampleShape
  /\ (pc = "inf_fwd") ~> (pc = "infere")

\* a sample that never drew BOS has ended after block_size forward calls
C14_Witness ==
  /\ pc = "infere" /\ InSample
  /\ Len(fwdLog) = block_size
  /\ \A i \in 1..Len(idxs) : idxs[i] # BOS

(***************************************************************************)
(* save and load (llama.ts:173-184, part_001:216-227).  A Float64Array     *)
(* holds each number as the 8 bytes of its IEEE-754 binary64 encoding, in  *)
(* the platform's (little-endian) byte order.                              *)
(***************************************************************************)
MaxParams == 3           \* params.length of a model that is saved or loaded

BYTES_PER_ELEMENT == 8

\* the binary64 encodings of the numbers a parameter holds in this model
Float64Bytes(d) ==
  CASE d = Num(-1) -> <<0, 0, 0, 0, 0, 0, 240, 191>>
    [] d = Num(0) -> <<0, 0, 0, 0, 0, 0, 0, 0>>
    [] d = Num(1) -> <<0, 0, 0, 0, 0, 0, 240, 63>>
    [] d = Num(2) -> <<0, 0, 0, 0, 0, 0, 0, 64>>
    [] OTHER -> <<0, 0, 0, 0, 0, 0, 248, 127>>      \* NaN; undefined converts to NaN

Float64Of(b) ==
  IF \E i \in {-1, 0, 1, 2} : Float64Bytes(Num(i)) = b
  THEN Num(CHOOSE i \in {-1, 0, 1, 2} : Float64Bytes(Num(i)) = b)
  ELSE NaN

\* new Float64Array(rawData).buffer
Float64ArrayBuffer(rawData) ==
  Concat([i \in 1..Len(rawData) |-> Float64Bytes(rawData[i])])

\* new Float64Array(buffer): its length, and floatArray[i] for a 0-based i
Float64Length(buffer) == Len(buffer) \div BYTES_PER_ELEMENT
\* (faulty variant: elements are read 4 bytes apart)
Float64At_HalfStride(buffer, i) ==
  IF i < Float64Length(buffer)
  THEN Float64Of(SubSeq(buffer \o buffer, i * 4 + 1, i * 4 + 8))
  ELSE Undefined
Float64At(buffer, i) ==
  IF i < Float64Length(buffer)
  THEN Float64Of(SubSeq(buffer, i * BYTES_PER_ELEMENT + 1,
                        i * BYTES_PER_ELEMENT + BYTES_PER_ELEMENT))
  ELSE Undefined

\* save(): this.params.map(e => e.data) as a Float64Array, written to path
SaveBytes(params) == Float64ArrayBuffer([i \in 1..Len(params) |-> params[i].data])

\* load(): reading a missing file rejects; a byte length that is no multiple
\* of 8 makes the Float64Array constructor throw; otherwise
\* this.params.forEach((v, i) => v.data = floatArray[i])
LoadParams(params, f) ==
  IF ~f.exists THEN [threw |-> "ENOENT", params |-> params]
  ELSE IF Len(f.bytes) % BYTES_PER_ELEMENT # 0
       THEN [threw |-> "RangeError", params |-> params]
  ELSE [threw |-> "none",
        params |-> [i \in 1..Len(params) |->
                      [params[i] EXCEPT !.data = Float64At(f.bytes, i - 1)]]]

PerKeep == UNCHANGED <<agVars, drvVars, lin, scene>>

Save ==
  /\ file' = [exists |-> TRUE, bytes |-> SaveBytes(saver)]
  /\ UNCHANGED <<saver, loader, loadInfo>>
  /\ PerKeep

Load ==
  /\ ~loadInfo.done
  /\ LET r == LoadParams(loader, file)
     IN /\ loader' = r.params
        /\ loadInfo' = [done |-> TRUE, threw |-> r.threw,
                        count |-> Float64Length(file.bytes), before |-> loader]
  /\ UNCHANGED <<saver, file>>
  /\ PerKeep

\* a model is constructed with params.length leaves of random data
Models ==
  UNION {{[i \in 1..k |-> NewValue(Num(d[i]), <<>>, <<>>)] : d \in [1..k -> ParamData]} :
           k \in 1..MaxParams}

InitPersist ==
  /\ saver \in Models
  /\ loader \in Models
  /\ file = [exists |-> FALSE, bytes |-> <<>>]
  /\ loadInfo = [done |-> FALSE]
  /\ AgIdle /\ DrvIdle /\ LinIdle /\ SceneIdle

NextPersist == Save \/ Load

SpecPersist == InitPersist /\ [][NextPersist]_vars

\* C7: save writes the N data values in parameter-list order, and loading
\* that file into a freshly constructed model of the same shape gives
\* params[i] the saved model's params[i].data for every i, changing neither
\* the number of parameters nor anything else of them.
C7_SaveLoadRoundTrip ==
  /\ file.exists =>
       /\ Float64Length(file.bytes) = Len(saver)
       /\ Len(file.bytes) = BYTES_PER_ELEMENT * Len(saver)
       /\ \A i \in 1..Len(saver) :
            SubSeq(file.bytes, 8 * (i - 1) + 1, 8 * i) = Float64Bytes(saver[i].data)
  /\ (loadInfo.done /\ loadInfo.threw # "ENOENT" /\ Len(saver) = Len(loadInfo.before)) =>
       /\ loadInfo.threw = "none"
       /\ Len(loader) = Len(loadInfo.before)
       /\ \A i \in 1..Len(loader) :
            /\ loader[i].data = saver[i].data
            /\ loader[i] = [loadInfo.before[i] EXCEPT !.data = saver[i].data]

\* a load of a saved file that changed every parameter of a fresh model of
\* the same shape, the saved values differing from one another
C7_Witness ==
  /\ loadInfo.done /\ loadInfo.threw = "none"
  /\ Len(saver) = Len(loader) /\ Len(saver) >= 3
  /\ saver[1].data # saver[2].data /\ saver[2].data # saver[3].data
  /\ \A i \in 1..Len(loader) : loadInfo.before[i].data # saver[i].data

\* C8: loading a file whose number of values differs from the model's
\* parameter count fails with an error: it neither truncates the file nor
\* leaves a parameter without a value from the file.
C8_LengthMismatchIsFatal ==
  (loadInfo.done /\ loadInfo.threw # "ENOENT" /\ loadInfo.count # Len(loadInfo.before)) =>
    loadInfo.threw # "none"

(***************************************************************************)
(* linear (gpt.ts:194-198): per row of w, a chain of adds seeded with a    *)
(* new Value(0).  x and the rows of w are sequences of Values of g.        *)
(***************************************************************************)
MaxIn == 2               \* length of x, and of a row of w
MaxOut == 2              \* rows of w

\* x[i] for a 0-based i: undefined beyond the end; wi.mul(x[i]) wraps a
\* non-Value operand in a new Value
linearRow(g, x, row, i, sum) ==
  LET elem(s, j) ==
        Only([g1 \in {IF j <= Len(x) THEN ValueMul(s.g, row[j], x[j])
                        ELSE ValueMulRaw(s.g, row[j], Undefined)} |->
        Only([g2 \in {ValueAdd(g1, s.out, Last(g1))} |->
          [g |-> g2, out |-> Last(g2)]])])
  IN ForRange(elem, [g |-> g, out |-> sum], i, Len(row))

linearRows(g, x, w, r, out) ==
  LET elem(s, j) ==
        Only([g0 \in {Wrap(s.g, Num(0))} |->
        Only([res \in {linearRow(g0, x, w[j], 1, Last(g0))} |->
          [g |-> res.g, out |-> Append(s.out, res.out), threw |-> FALSE]])])
  IN ForRange(elem, [g |-> g, out |-> out, threw |-> FALSE], r, Len(w))

linear(g, x, w) == linearRows(g, x, w, 1, <<>>)

LinearCall ==
  /\ ~lin.called
  /\ LET r == linear(nodes, lin.x, lin.w)
     IN /\ nodes' = r.g
        /\ lin' = [lin EXCEPT !.called = TRUE, !.out = r.out, !.threw = r.threw]
  /\ UNCHANGED <<nparams, apc, bw, usedGrad, drvVars, perVars, scene>>

\* x of nx leaves, then w of nout rows of nin leaves
InitLinear ==
  /\ \E nx \in 0..MaxIn, nin \in 1..MaxIn, nout \in 1..MaxOut :
       /\ \E d \in [1..(nx + nout * nin) -> ParamData] :
            nodes = [i \in 1..(nx + nout * nin) |-> NewValue(Num(d[i]), <<>>, <<>>)]
       /\ lin = [called |-> FALSE, threw |-> FALSE, out |-> <<>>,
                 x |-> [i \in 1..nx |-> i],
                 w |-> [r \in 1..nout |-> [c \in 1..nin |-> nx + (r - 1) * nin + c]]]
  /\ nparams = 0 /\ apc = "build"
  /\ bw = [out |-> 0, before |-> <<>>] /\ usedGrad = FALSE
  /\ DrvIdle /\ PerIdle /\ SceneIdle

NextLinear == LinearCall

SpecLinear == InitLinear /\ [][NextLinear]_vars

\* C9: linear(x, w) with an x shorter or longer than the rows of w fails
\* with an error instead of returning an output vector.
C9_ShapeViolationIsFatal ==
  (lin.called /\ Len(lin.x) # Len(lin.w[1])) => lin.threw

(***************************************************************************)
(* The standard-attention forward pass as a graph of Values (gpt.ts:       *)
(* 168-276), on a small configuration: cfg holds vocabSize, block_size,    *)
(* n_layer, n_embd and n_head.  A vector is a sequence of Values of the    *)
(* arena g; every operator returns the grown arena and its result.         *)
(***************************************************************************)
SceneHeadDim == 1        \* head_dim of the small configuration
SceneSteps == 3          \* training steps taken on it

\* vocabulary size 3, single layer, block size 2
SceneConfig ==
  [vocabSize |-> 3, n_layer |-> 1, block_size |-> 2,
   n_head |-> 2, n_embd |-> 2 * SceneHeadDim]

\* matrix(nout, nin): rows of leaves, created row by row after base others
matrix(base, nout, nin) ==
  [r \in 1..nout |-> [c \in 1..nin |-> base + (r - 1) * nin + c]]

\* state: the named matrices, in the order their leaves enter params
LayerBase(cfg, li) ==
  (2 * cfg.vocabSize + cfg.block_size) * cfg.n_embd
    + (li - 1) * 12 * cfg.n_embd * cfg.n_embd

state(cfg) ==
  LET E == cfg.n_embd
      V == cfg.vocabSize
      B == cfg.block_size
  IN [wte |-> matrix(0, V, E),
      wpe |-> matrix(V * E, B, E),
      lm_head |-> matrix((V + B) * E, V, E),
      layer |-> [li \in 1..cfg.n_layer |->
        LET b == LayerBase(cfg, li)
        IN [attn_wq |-> matrix(b, E, E),
            attn_wk |-> matrix(b + E * E, E, E),
            attn_wv |-> matrix(b + 2 * E * E, E, E),
            attn_wo |-> matrix(b + 3 * E * E, E, E),
            mlp_fc1 |-> matrix(b + 4 * E * E, 4 * E, E),
            mlp_fc2 |-> matrix(b + 8 * E * E, E, 4 * E)]]]

NumParams(cfg) == LayerBase(cfg, cfg.n_layer + 1)

\* the ids of a matrix, and the leaves created with std = 0
Leaves(m) == UNION {{m[r][c] : c \in 1..Len(m[r])} : r \in 1..Len(m)}
ZeroInit(cfg) ==
  UNION {Leaves(state(cfg).layer[li].attn_wo) \cup Leaves(state(cfg).layer[li].mlp_fc2) :
           li \in 1..cfg.n_layer}

\* randn(0, std): mean + std * (...), exactly 0 for std = 0
params0(cfg) ==
  [i \in 1..NumParams(cfg) |->
     NewValue(IF i \in ZeroInit(cfg) THEN Num(0) ELSE Float, <<>>, <<>>)]

\* xs.map((x, i) => x.add(ys[i])), x.mul(ys[i]), x.relu().pow(2)
zipWith(g, kind, xs, ys, i, out) ==
  LET elem(s, j) ==
        Only([g1 \in {CASE kind = "add" -> ValueAdd(s.g, xs[j], ys[j])
                        [] kind = "mul" -> ValueMul(s.g, xs[j], ys[j])
                        [] kind = "relu_pow2" ->
                             ValuePow(ValueRelu(s.g, xs[j]), Len(s.g) + 1, 2)} |->
          [g |-> g1, out |-> Append(s.out, Last(g1))]])
  IN ForRange(elem, [g |-> g, out |-> out], i, Len(xs))

Fill(k, v) == [i \in 1..k |-> v]

\* xs.reduce((a, b) => a.add(b)): the first element seeds the sum
reduceFrom(g, xs, i, acc) ==
  LET elem(s, j) ==
        Only([g1 \in {ValueAdd(s.g, s.out, xs[j])} |-> [g |-> g1, out |-> Last(g1)]])
  IN ForRange(elem, [g |-> g, out |-> acc], i, Len(xs))

reduceAdd(g, xs) == reduceFrom(g, xs, 2, xs[1])

\* Math.sqrt(k)
Sqrt(k) == IF \E r \in 0..k : r * r = k THEN Num(CHOOSE r \in 0..k : r * r = k) ELSE Float

\* rmsnorm (gpt.ts:207-214); 1e-5 is a Float
rmsnorm(g, x) ==
  Only([sq \in {zipWith(g, "mul", x, x, 1, <<>>)} |->
  Only([sm \in {reduceAdd(sq.g, sq.out)} |->
  Only([ms \in {ValueDivRaw(sm.g, sm.out, Num(Len(x)))} |->
  Only([eps \in {ValueAddRaw(ms, Last(ms), Float)} |->
  Only([scale \in {ValuePowNegHalf(eps, Last(eps))} |->
    zipWith(scale, "mul", x, Fill(Len(x), Last(scale)), 1, <<>>)])])])])])

\* softmax (gpt.ts:200-205).  maxVal = Math.max(...data); v.sub(maxVal) is
\* v.add(-maxVal), whose data is exactly 0 for the v that holds the maximum:
\* known when the data are known integers or when v is the only logit.
MaxOf(S) == CHOOSE m \in S : \A k \in S : k <= m
negMaxVal(g, logits) ==
  IF \A i \in 1..Len(logits) : IsNum(g[logits[i]].data)
  THEN Num(0 - MaxOf({g[logits[i]].data.v : i \in 1..Len(logits)}))
  ELSE IF \A i \in 1..Len(logits) : IsFinite(g[logits[i]].data) THEN Float
  ELSE NaN

ValueSubMax(g, a, negMax, alone) ==
  Only([g1 \in {ValueAddRaw(g, a, negMax)} |->
    IF alone /\ IsFinite(g[a].data) THEN [g1 EXCEPT ![Len(g1)].data = Num(0)] ELSE g1])

RECURSIVE softmaxExps(_, _, _, _, _)
softmaxExps(g, logits, negMax, i, out) ==
  IF i > Len(logits) THEN [g |-> g, out |-> out]
  ELSE Only([g1 \in {ValueSubMax(g, logits[i], negMax, Len(logits) = 1)} |->
       Only([g2 \in {ValueExp(g1, Last(g1))} |->
         softmaxExps(g2, logits, negMax, i + 1, Append(out, Last(g2)))])])

RECURSIVE softmaxDivs(_, _, _, _, _)
softmaxDivs(g, exps, total, i, out) ==
  IF i > Len(exps) THEN [g |-> g, out |-> out]
  ELSE Only([g1 \in {ValueDiv(g, exps[i], total)} |->
         softmaxDivs(g1, exps, total, i + 1, Append(out, Last(g1)))])

softmax(g, logits) ==
  Only([exps \in {softmaxExps(g, logits, negMaxVal(g, logits), 1, <<>>)} |->
  Only([total \in {reduceAdd(exps.g, exps.out)} |->
    softmaxDivs(total.g, exps.out, total.out, 1, <<>>)])])

\* kh.map((kt) => qh.map((qj, j) => qj.mul(kt[j])).reduce(add).div(sqrt(head_dim)))
RECURSIVE attnLogits(_, _, _, _, _, _)
attnLogits(g, cfg, qh, kh, t, out) ==
  IF t > Len(kh) THEN [g |-> g, out |-> out]
  ELSE Only([prod \in {zipWith(g, "mul", qh, kh[t], 1, <<>>)} |->
       Only([dot \in {reduceAdd(prod.g, prod.out)} |->
       Only([g1 \in {ValueDivRaw(dot.g, dot.out, Sqrt(cfg.n_embd \div cfg.n_head))} |->
         attnLogits(g1, cfg, qh, kh, t + 1, Append(out, Last(g1)))])])])

\* for (j < head_dim) x_attn.push(weights.map((wt, t) => wt.mul(vh[t][j])).reduce(add))
RECURSIVE attnValues(_, _, _, _, _, _)
attnValues(g, cfg, weights, vh, j, out) ==
  IF j > cfg.n_embd \div cfg.n_head THEN [g |-> g, out |-> out]
  ELSE Only([prod \in {zipWith(g, "mul", weights, [t \in 1..Len(vh) |-> vh[t][j]],
                                 1, <<>>)} |->
       Only([val \in {reduceAdd(prod.g, prod.out)} |->
         attnValues(val.g, cfg, weights, vh, j + 1, Append(out, val.out))])])

\* for (h < n_head): slices at the head's offset of q and of every cached k, v
RECURSIVE attnHeads(_, _, _, _, _, _, _)
attnHeads(g, cfg, q, ks, vs, h, x_attn) ==
  IF h >= cfg.n_head THEN [g |-> g, out |-> x_attn]
  ELSE LET hd == cfg.n_embd \div cfg.n_head
           hs == h * hd
           qh == Slice(q, hs, hs + hd)
           kh == [t \in 1..Len(ks) |-> Slice(ks[t], hs, hs + hd)]
           vh == [t \in 1..Len(vs) |-> Slice(vs[t], hs, hs + hd)]
       IN Only([logits \in {attnLogits(g, cfg, qh, kh, 1, <<>>)} |->
          Only([weights \in {softmax(logits.g, logits.out)} |->
          Only([vals \in {attnValues(weights.g, cfg, weights.out, vh, 1, <<>>)} |->
            attnHeads(vals.g, cfg, q, ks, vs, h + 1, x_attn \o vals.out)])])])

\* the body of the layer loop (gpt.ts:228-272); keys and values are the
\* caches keys[li] and values[li], here lists of vectors of Values; xs lists
\* the intermediate vectors in the order they are computed
gptGraphLayer(g, cfg, w, x0, keys_li, values_li) ==
  Only([x1 \in {rmsnorm(g, x0)} |->
  Only([q \in {linear(x1.g, x1.out, w.attn_wq)} |->
  Only([k \in {linear(q.g, x1.out, w.attn_wk)} |->
  Only([v \in {linear(k.g, x1.out, w.attn_wv)} |->
  Only([ks \in {Push(keys_li, k.out)} |->
  Only([vs \in {Push(values_li, v.out)} |->
  Only([att \in {attnHeads(v.g, cfg, q.out, ks, vs, 0, <<>>)} |->
  Only([x2 \in {linear(att.g, att.out, w.attn_wo)} |->
  Only([x3 \in {zipWith(x2.g, "add", x2.out, x0, 1, <<>>)} |->
  Only([x4 \in {rmsnorm(x3.g, x3.out)} |->
  Only([x5 \in {linear(x4.g, x4.out, w.mlp_fc1)} |->
  Only([x6 \in {zipWith(x5.g, "relu_pow2", x5.out, x5.out, 1, <<>>)} |->
  Only([x7 \in {linear(x6.g, x6.out, w.mlp_fc2)} |->
  Only([x8 \in {zipWith(x7.g, "add", x7.out, x3.out, 1, <<>>)} |->
    [xs |-> <<x1.out, q.out, k.out, v.out, att.out, x2.out, x3.out, x4.out,
              x5.out, x6.out, x7.out>>,
     g |-> x8.g, out |-> x8.out, keys |-> ks, values |-> vs]
  ])])])])])])])])])])])])])])

RECURSIVE gptGraphLayers(_, _, _, _, _, _)
gptGraphLayers(g, cfg, x, keys0, values0, li) ==
  IF li > cfg.n_layer THEN [g |-> g, out |-> x, keys |-> keys0, values |-> values0]
  ELSE Only([r \in {gptGraphLayer(g, cfg, state(cfg).layer[li], x,
                                    keys0[li], values0[li])} |->
       Only([ks \in {[keys0 EXCEPT ![li] = r.keys]} |->
       Only([vs \in {[values0 EXCEPT ![li] = r.values]} |->
         gptGraphLayers(r.g, cfg, r.out, ks, vs, li + 1)])])])

\* state.wte[tokenId]
wteRow_Next(cfg, tok) == state(cfg).wte[((tok + 1) % cfg.vocabSize) + 1]
wteRow(cfg, tok) == state(cfg).wte[tok + 1]

\* gpt(tokenId, posId, keys, values) (gpt.ts:216-276)
gptGraph(g, cfg, tok, posId, keys0, values0) ==
  Only([emb \in {zipWith(g, "add", wteRow(cfg, tok), state(cfg).wpe[posId + 1],
                         1, <<>>)} |->
  Only([x \in {rmsnorm(emb.g, emb.out)} |->
  Only([body \in {gptGraphLayers(x.g, cfg, x.out, keys0, values0, 1)} |->
  Only([logits \in {linear(body.g, body.out, state(cfg).lm_head)} |->
    [xs |-> <<emb.out, x.out, body.out>>,
     g |-> logits.g, out |-> logits.out, keys |-> body.keys, values |-> body.values]
  ])])])])

(***************************************************************************)
(* One training step at a time on that graph (gpt.ts:292-328, with a       *)
(* one-token step): forward on fresh caches, the loss of one target,       *)
(* backward, the optimizer update.                                         *)
(***************************************************************************)
EmptyCaches(cfg) == [li \in 1..cfg.n_layer |-> <<>>]
DataOf(g) == [i \in 1..Len(g) |-> g[i].data]
GradOf(g) == [i \in 1..Len(g) |-> g[i].grad]

SceneKeep == UNCHANGED <<nparams, usedGrad, drvVars, perVars, lin>>

\* logits = gpt(tokens[pos], pos, keys, values)
SceneForward == \E tok \in 0..(SceneConfig.vocabSize - 1),
                   posId \in 0..(SceneConfig.block_size - 1) :
  /\ scene.pc = "start"
  /\ \E r \in {gptGraph(nodes, SceneConfig, tok, posId,
                         EmptyCaches(SceneConfig), EmptyCaches(SceneConfig))} :
        /\ nodes' = r.g
        /\ scene' = [scene EXCEPT !.pc = "forward_done", !.tok = tok, !.pos = posId,
                                  !.logits = r.out, !.keys = r.keys, !.values = r.values,
                                  !.data0 = DataOf(nodes), !.data1 = DataOf(r.g)]
  /\ UNCHANGED <<apc, bw>>
  /\ SceneKeep

\* probs = softmax(logits); probs[target].log().neg()
lossOf(g, logits, target) ==
  Only([probs \in {softmax(g, logits)} |->
  Only([l \in {ValueLog(probs.g, probs.out[target + 1])} |->
    ValueNeg(l, Last(l))])])

SceneLoss == \E target \in 0..(SceneConfig.vocabSize - 1) :
  /\ scene.pc = "forward_done"
  /\ nodes' = lossOf(nodes, scene.logits, target)
  /\ scene' = [scene EXCEPT !.pc = "loss_built", !.target = target,
                            !.data2 = DataOf(nodes')]
  /\ UNCHANGED <<apc, bw>>
  /\ SceneKeep

\* loss.backward()
SceneBackward ==
  /\ scene.pc = "loss_built"
  /\ bw' = [out |-> Len(nodes), before |-> GradOf(nodes)]
  /\ nodes' = Backward(nodes, Len(nodes))
  /\ apc' = "backward_done"
  /\ scene' = [scene EXCEPT !.pc = "backward_done"]
  /\ SceneKeep

\* params.forEach: m, v, p.data -= lr_t * mhat / (sqrt(vhat) + eps); p.grad = 0.
\* A parameter whose grad has been 0 in every step so far has m = 0 and keeps
\* its data; the graph of the step is dropped.
adamData(p) == IF p.grad = Num(0) THEN p.data ELSE Float

SceneOptim ==
  /\ scene.pc = "backward_done"
  /\ scene.step + 1 < SceneSteps
  /\ nodes' = [i \in 1..nparams |-> ZeroGrad([nodes[i] EXCEPT !.data = adamData(nodes[i])])]
  /\ apc' = "build"
  /\ bw' = [out |-> 0, before |-> <<>>]
  /\ scene' = [pc |-> "start", step |-> scene.step + 1, tok |-> 0, pos |-> 0,
               target |-> 0, logits |-> <<>>, keys |-> <<>>, values |-> <<>>,
               data0 |-> <<>>, data1 |-> <<>>, data2 |-> <<>>]
  /\ SceneKeep

InitScene ==
  /\ nodes = params0(SceneConfig)
  /\ nparams = NumParams(SceneConfig)
  /\ apc = "build"
  /\ bw = [out |-> 0, before |-> <<>>]
  /\ usedGrad = FALSE
  /\ scene = [pc |-> "start", step |-> 0, tok |-> 0, pos |-> 0,
              target |-> 0, logits |-> <<>>, keys |-> <<>>, values |-> <<>>,
              data0 |-> <<>>, data1 |-> <<>>, data2 |-> <<>>]
  /\ DrvIdle /\ PerIdle /\ LinIdle

NextScene == SceneForward \/ SceneLoss \/ SceneBackward \/ SceneOptim

SpecScene == InitScene /\ [][NextScene]_vars

(***************************************************************************)
(* Properties of a step on the whole graph.                                *)
(***************************************************************************)
\* the nodes an output node reaches through child links: a child is older
\* than its parent, so one pass from the output down finds them all
RECURSIVE reachRange(_, _, _, _)
reachRange(g, S, hi, lo) ==
  IF hi < lo \/ S = {} THEN S
  ELSE IF hi = lo
       THEN IF hi \in S
            THEN S \cup {g[hi].children[j] : j \in 1..Len(g[hi].children)}
            ELSE S
  ELSE LET mid == (hi + lo) \div 2
       IN reachRange(g, reachRange(g, S, hi, mid + 1), mid, lo)

ReachableFrom(g, out) == reachRange(g, {out}, out, 1)

\* the parameters a forward call with token tok at position posId reads
Touched(cfg, tok, posId) ==
  (1..NumParams(cfg))
    \ ((Leaves(state(cfg).wte) \ {state(cfg).wte[tok + 1][c] : c \in 1..cfg.n_embd})
       \cup (Leaves(state(cfg).wpe) \ {state(cfg).wpe[posId + 1][c] : c \in 1..cfg.n_embd}))

\* C12: after one forward call with token t at position p and backward on a
\* loss built from its logits, only nodes reachable from the loss have had
\* their grad written; every row of the token-embedding matrix other than
\* row t and every row of the position-embedding matrix other than row p
\* still has grad 0; and neither forward nor backward changed the data of a
\* node that existed before it.
C12_BackwardWritesOnlyReachable ==
  /\ scene.pc \in {"forward_done", "loss_built", "backward_done"} =>
       /\ nparams = Len(scene.data0)
       /\ SubSeq(scene.data1, 1, nparams) = scene.data0
       /\ SubSeq(DataOf(nodes), 1, nparams) = scene.data0
  /\ scene.pc \in {"loss_built", "backward_done"} =>
       /\ SubSeq(scene.data2, 1, Len(scene.data1)) = scene.data1
       /\ DataOf(nodes) = scene.data2
  /\ scene.pc = "backward_done" =>
       /\ LET reached == ReachableFrom(nodes, bw.out)
          IN \A u \in 1..Len(nodes) :
               u \notin reached =>
                 nodes[u].grad = bw.before[u] /\ nodes[u].grad = Num(0)
       /\ \A p \in 1..nparams :
            p \notin Touched(SceneConfig, scene.tok, scene.pos) => nodes[p].grad = Num(0)

\* a backward call for token 1 at position 1 that reached row 1 of both
\* embedding matrices and left the other rows, which exist, at grad 0
C12_Witness ==
  /\ scene.pc = "backward_done" /\ scene.tok = 1 /\ scene.pos = 1
  /\ \A c \in 1..SceneConfig.n_embd :
       /\ state(SceneConfig).wte[2][c] \in ReachableFrom(nodes, bw.out)
       /\ nodes[state(SceneConfig).wte[2][c]].grad # Num(0)
       /\ nodes[state(SceneConfig).wpe[2][c]].grad # Num(0)
       /\ nodes[state(SceneConfig).wte[1][c]].grad = Num(0)
       /\ nodes[state(SceneConfig).wte[3][c]].grad = Num(0)
       /\ nodes[state(SceneConfig).wpe[1][c]].grad = Num(0)
  /\ Len(nodes) > nparams
  /\ \E u \in (nparams + 1)..Len(nodes) : u \notin ReachableFrom(nodes, bw.out)

\* C13: in the end-to-end scenario (a freshly constructed model, token 0 at
\* position 0, empty cache, backward on -log(softmax(logits)[1])) every
\* parameter the forward pass touched ends with a nonzero gradient, the
\* query and key projection weights included.
C13_TouchedHaveNonzeroGrad ==
  (scene.pc = "backward_done" /\ scene.step = 0
     /\ scene.tok = 0 /\ scene.pos = 0 /\ scene.target = 1) =>
    \A p \in Touched(SceneConfig, 0, 0) : nodes[p].grad # Num(0)

====
